---- MODULE Spec2Model ----
\* Model of .github/scripts/compare_dirs.py: main() compares ./directory1 with
\* ./directory2 by top-level names and, when directory1 has a name directory2
\* lacks, clears directory2 (except 'specific') and copies directory1 into it.
\*
\* The filesystem is one function fs from paths (tuples of names) to entries
\* [kind, data]; both directories live in it, so a delete or a copy aimed at
\* the wrong directory is visible.  Kinds:
\*   "dir"     a directory
\*   "file"    a regular file holding data
\*   "link"    a dangling symbolic link: its target, outside both trees, is
\*             missing; data tells whether the target's parent directory
\*             exists ("creatable") or not ("unreachable")
\*   "symfile" a symbolic link to an existing regular file outside both trees
EXTENDS Naturals, Sequences, FiniteSets, TLC

VARIABLES fs, pc, todoClear, todoCopy, order, run, out, calls, path, raised,
          fsStart, ends

vars == <<fs, pc, todoClear, todoCopy, order, run, out, calls, path, raised,
          fsStart, ends>>

\* ---------------------------------------------------------------- bounds
MaxNodes == 4      \* entries below the two directories in an initial state
MaxDepth == 3      \* depth of an initial entry below its directory
MaxRuns  == 2      \* successive runs of main()

\* ------------------------------------------------------- names and paths
dir1 == <<"directory1">>
dir2 == <<"directory2">>

Reserved == "specific"

\* filecmp.DEFAULT_IGNORES: names dircmp leaves out of both listings
DEFAULT_IGNORES ==
  {"RCS", "CVS", "tags", ".git", ".hg", ".bzr", "_darcs", "__pycache__"}

TopNames    == {"a", "specific", "tags"}
NestedNames == {"specific", "x"}
Contents    == {"old", "new"}
LinkTargets == {"creatable", "unreachable"}
NoData      == "none"

Dir        == [kind |-> "dir",  data |-> NoData]
Link(t)    == [kind |-> "link", data |-> t]
File(c)    == [kind |-> "file", data |-> c]
SymFile(c) == [kind |-> "symfile", data |-> c]

join(p, item) == Append(p, item)
Parent(p)     == SubSeq(p, 1, Len(p) - 1)
basename(p)   == p[Len(p)]
IsPrefix(p, q) == Len(p) <= Len(q) /\ SubSeq(q, 1, Len(p)) = p
Under(p, q)    == Len(p) < Len(q) /\ IsPrefix(p, q)
Range(s)       == {s[i] : i \in 1..Len(s)}

\* q with its prefix s replaced by d
Rebase(q, s, d) == d \o SubSeq(q, Len(s) + 1, Len(q))

\* ------------------------------------------------ filesystem primitives
lexists(F, p) == p \in DOMAIN F
\* os.path.exists follows symbolic links: False for a dangling one
exists(F, p)  == p \in DOMAIN F /\ F[p].kind # "link"
isdir(F, p)   == p \in DOMAIN F /\ F[p].kind = "dir"
listdir(F, p) == {q[Len(q)] : q \in {r \in DOMAIN F : Parent(r) = p}}

Subtree(F, p) == {q \in DOMAIN F : Under(p, q)}
\* the entry at p and everything below it (<<>> is p itself); empty when absent
At(F, p) ==
  [r \in {SubSeq(q, Len(p) + 1, Len(q)) : q \in {x \in DOMAIN F : IsPrefix(p, x)}}
     |-> F[p \o r]]

Restrict(F, D) == [q \in D |-> F[q]]

rmtree(F, p) == Restrict(F, {q \in DOMAIN F : ~IsPrefix(p, q)})
remove(F, p) == Restrict(F, DOMAIN F \ {p})

\* an outcome of a library call: the filesystem it leaves and whether it returned
Outcome(F, ok) == [fs |-> F, ok |-> ok]

\* what a copy that follows symbolic links writes for a source entry
Copied(e) == IF e.kind = "symfile" THEN File(e.data) ELSE e

\* a copytree that applied the exclusion of 'specific' at every level
shutil_copytree_deep(F, s, d) ==
  IF lexists(F, d)
  THEN Outcome(F, FALSE)
  ELSE LET from == {q \in DOMAIN F :
                      /\ IsPrefix(s, q) /\ F[q].kind # "link"
                      /\ \A i \in (Len(s) + 1)..Len(q) : q[i] # Reserved}
           new  == {Rebase(q, s, d) : q \in from}
           G    == [q \in DOMAIN F \cup new |->
                      IF q \in new THEN Copied(F[Rebase(q, d, s)]) ELSE F[q]]
       IN  Outcome(G, \A q \in Subtree(F, s) : F[q].kind # "link")

\* shutil.copytree(s, d, symlinks=False, ignore=None): os.makedirs(d) fails when
\* d exists in any form; every entry below s is copied; a dangling link is
\* left out, the rest is still copied, and shutil.Error is raised at the end.
shutil_copytree(F, s, d) ==
  IF lexists(F, d)
  THEN Outcome(F, FALSE)
  ELSE LET from == {q \in DOMAIN F : IsPrefix(s, q) /\ F[q].kind # "link"}
           new  == {Rebase(q, s, d) : q \in from}
           G    == [q \in DOMAIN F \cup new |->
                      IF q \in new THEN Copied(F[Rebase(q, d, s)]) ELSE F[q]]
       IN  Outcome(G, \A q \in Subtree(F, s) : F[q].kind # "link")

\* shutil.copy2(s, d) for s that is not a directory: a directory d means
\* d/basename(s); the source is opened first (a dangling link raises), then
\* the target is opened for writing, following a symbolic link at the target.
\* Writing through a dangling link creates the link's target when the
\* target's parent exists and raises otherwise.
copy2(F, s, d) ==
  LET t == IF isdir(F, d) THEN join(d, basename(s)) ELSE d
      c == F[s].data
  IN  IF F[s].kind = "link" THEN Outcome(F, FALSE)
      ELSE IF isdir(F, t)   THEN Outcome(F, FALSE)
      ELSE IF lexists(F, t) /\ F[t].kind = "link"
           THEN IF F[t].data = "creatable"
                THEN Outcome([F EXCEPT ![t] = SymFile(c)], TRUE)
                ELSE Outcome(F, FALSE)
      ELSE IF lexists(F, t) /\ F[t].kind = "symfile"
           THEN Outcome([F EXCEPT ![t] = SymFile(c)], TRUE)
      ELSE Outcome([q \in DOMAIN F \cup {t} |-> IF q = t THEN File(c) ELSE F[q]],
                   TRUE)

\* filecmp.dircmp(a, b).left_only: names listed in a and not in b, after both
\* listings drop the ignored names
Filter(names, skip) == names \ skip
\* the comparison taken from the wrong side: names of b that a lacks
right_only(F, a, b) ==
  Filter(listdir(F, b), DEFAULT_IGNORES) \ Filter(listdir(F, a), DEFAULT_IGNORES)

left_only(F, a, b) ==
  Filter(listdir(F, a), DEFAULT_IGNORES) \ Filter(listdir(F, b), DEFAULT_IGNORES)

\* a listing that raised only for a missing path
listable_if_present(F, p) == lexists(F, p)

\* os.listdir raises for a path that is missing or not a directory
listable(F, p) == isdir(F, p)

\* all orders in which os.listdir may return a set of names
RECURSIVE Perms(_)
Perms(S) ==
  IF S = {} THEN {<<>>}
  ELSE UNION {{<<x>> \o s : s \in Perms(S \ {x})} : x \in S}

\* ------------------------------------------------------- initial states
RECURSIVE RelPaths(_)
RelPaths(d) ==
  IF d = 1 THEN {<<t>> : t \in TopNames}
  ELSE LET shorter == RelPaths(d - 1)
       IN  shorter \cup
           {Append(p, n) : p \in {r \in shorter : Len(r) = d - 1}, n \in NestedNames}

Universe == {r \o p : r \in {dir1, dir2}, p \in RelPaths(MaxDepth)}

Addable(S) ==
  {p \in Universe : p \notin S /\ (Len(p) = 2 \/ Parent(p) \in S)}

\* the prefix-closed sets of at most n paths below the two directories
RECURSIVE Shapes(_)
Shapes(n) ==
  IF n = 0 THEN {{}}
  ELSE LET prev == Shapes(n - 1)
       IN  prev \cup UNION {{S \cup {p} : p \in Addable(S)} : S \in prev}

InitShapes == Shapes(MaxNodes)

Leaves(S)   == {p \in S : \A q \in S : Parent(q) # p}
LeafEntries ==
  {Dir} \cup {Link(t) : t \in LinkTargets} \cup {File(c) : c \in Contents}
RootKinds   == {"dir", "file", "absent"}

RootEntry(k) == IF k = "dir" THEN Dir ELSE File("old")

Tree(k1, k2, S, lf) ==
  LET roots == {r \in {dir1, dir2} : (IF r = dir1 THEN k1 ELSE k2) # "absent"}
  IN  [p \in roots \cup S |->
         IF p = dir1 THEN RootEntry(k1)
         ELSE IF p = dir2 THEN RootEntry(k2)
         ELSE IF p \in Leaves(S) THEN lf[p] ELSE Dir]

Init ==
  /\ \E k1 \in RootKinds, k2 \in RootKinds :
       \E S \in InitShapes :
         /\ \A p \in S : (p[1] = dir1[1] => k1 = "dir") /\ (p[1] = dir2[1] => k2 = "dir")
         /\ \E lf \in [Leaves(S) -> LeafEntries] : fs = Tree(k1, k2, S, lf)
  /\ pc = "start"
  /\ todoClear = {}
  /\ todoCopy = <<>>
  /\ order = <<>>
  /\ run = 1
  /\ out = 0
  /\ calls = {}
  /\ path = "none"
  /\ raised = "none"
  /\ fsStart = fs
  /\ ends = <<>>

\* ------------------------------------------------------------- main()
\* the paths the two loops act on
\* the clear loop joined onto the wrong directory
ClearTargetInSource(item) == join(dir1, item)

ClearTarget(item) == join(dir2, item)
CopySource(item)  == join(dir1, item)
CopyTarget(item)  == join(dir2, item)

Finish(result, where) ==
  /\ pc' = result
  /\ raised' = where
  /\ todoClear' = {}
  /\ todoCopy' = <<>>

\* line 22: the listing of either directory raises
DircmpRaises ==
  /\ pc = "start"
  /\ ~(listable(fs, dir1) /\ listable(fs, dir2))
  /\ Finish("error", "compare")
  /\ UNCHANGED <<fs, order, run, out, calls, path, fsStart, ends>>

\* lines 22-24: nothing is left_only, print and return
Identical ==
  /\ pc = "start"
  /\ listable(fs, dir1) /\ listable(fs, dir2)
  /\ left_only(fs, dir1, dir2) = {}
  /\ out' = out + 1
  /\ path' = "noop"
  /\ Finish("done", "none")
  /\ UNCHANGED <<fs, order, run, calls, fsStart, ends>>

\* lines 22, 27: something is left_only, list directory2 for the clear loop
Differ ==
  /\ pc = "start"
  /\ listable(fs, dir1) /\ listable(fs, dir2)
  /\ left_only(fs, dir1, dir2) # {}
  /\ path' = "sync"
  /\ pc' = "clear"
  /\ todoClear' = listdir(fs, dir2)
  /\ UNCHANGED <<fs, todoCopy, order, run, out, calls, raised, fsStart, ends>>

ClearNext(item) ==
  /\ todoClear' = todoClear \ {item}
  /\ UNCHANGED <<pc, todoCopy, order, run, out, path, raised, fsStart, ends>>

\* lines 29-31: an existing directory other than 'specific' is removed recursively
ClearDir ==
  /\ pc = "clear"
  /\ \E item \in todoClear :
       LET s == ClearTarget(item)
       IN  /\ item # Reserved /\ exists(fs, s) /\ isdir(fs, s)
           /\ fs' = rmtree(fs, s)
           /\ calls' = calls \cup {<<"rmtree", s>>}
           /\ ClearNext(item)

\* lines 29-33: any other existing entry other than 'specific' is unlinked
ClearFile ==
  /\ pc = "clear"
  /\ \E item \in todoClear :
       LET s == ClearTarget(item)
       IN  /\ item # Reserved /\ exists(fs, s) /\ ~isdir(fs, s)
           /\ fs' = remove(fs, s)
           /\ calls' = calls \cup {<<"remove", s>>}
           /\ ClearNext(item)

\* line 29: 'specific', and an entry os.path.exists denies, are left alone
ClearSkip ==
  /\ pc = "clear"
  /\ \E item \in todoClear :
       LET s == ClearTarget(item)
       IN  /\ ~(item # Reserved /\ exists(fs, s))
           /\ UNCHANGED <<fs, calls>>
           /\ ClearNext(item)

\* lines 36, 8: the clear loop is over, copytree lists directory1.  The order
\* of a listing is arbitrary but the same for an unchanged directory.
BeginCopy ==
  /\ pc = "clear"
  /\ todoClear = {}
  /\ \E s \in Perms(listdir(fs, dir1)) :
       /\ order = <<>> \/ Range(order) # Range(s) \/ order = s
       /\ todoCopy' = s
       /\ order' = s
  /\ pc' = "copy"
  /\ UNCHANGED <<fs, todoClear, run, out, calls, path, raised, fsStart, ends>>

CopyNext(r) ==
  /\ fs' = r.fs
  /\ IF r.ok
     THEN /\ todoCopy' = Tail(todoCopy)
          /\ UNCHANGED <<pc, raised, todoClear>>
     ELSE Finish("error", "copy")
  /\ UNCHANGED <<order, run, out, path, fsStart, ends>>

\* lines 11-13: a directory other than 'specific' is copied recursively
CopyDir ==
  /\ pc = "copy"
  /\ todoCopy # <<>>
  /\ LET item == Head(todoCopy)
         s    == CopySource(item)
         d    == CopyTarget(item)
     IN  /\ isdir(fs, s) /\ item # Reserved
         /\ calls' = calls \cup {<<"copytree", d>>}
         /\ CopyNext(shutil_copytree(fs, s, d))

\* lines 11-12: a directory named 'specific' is passed over
CopySkip ==
  /\ pc = "copy"
  /\ todoCopy # <<>>
  /\ LET item == Head(todoCopy)
         s    == CopySource(item)
     IN  /\ isdir(fs, s) /\ item = Reserved
         /\ todoCopy' = Tail(todoCopy)
         /\ UNCHANGED <<fs, pc, todoClear, order, run, out, calls, path, raised,
                        fsStart, ends>>

\* lines 14-15: anything that is not a directory goes through copy2
CopyFile ==
  /\ pc = "copy"
  /\ todoCopy # <<>>
  /\ LET item == Head(todoCopy)
         s    == CopySource(item)
         d    == CopyTarget(item)
     IN  /\ ~isdir(fs, s)
         /\ calls' = calls \cup {<<"copy2", d>>}
         /\ CopyNext(copy2(fs, s, d))

\* line 36: copytree returns, main returns
Return ==
  /\ pc = "copy"
  /\ todoCopy = <<>>
  /\ Finish("done", "none")
  /\ UNCHANGED <<fs, order, run, out, calls, path, fsStart, ends>>

\* the script is invoked again on the trees the previous run left
EndOf(f, p, w, c, o, r) ==
  [fs |-> f, pc |-> p, path |-> w, calls |-> c, out |-> o, raised |-> r]

NextRun ==
  /\ pc \in {"done", "error"}
  /\ run < MaxRuns
  /\ ends' = Append(ends, EndOf(fs, pc, path, calls, out, raised))
  /\ run' = run + 1
  /\ pc' = "start"
  /\ out' = 0
  /\ calls' = {}
  /\ path' = "none"
  /\ raised' = "none"
  /\ fsStart' = fs
  /\ UNCHANGED <<fs, todoClear, todoCopy, order>>

Next ==
  \/ DircmpRaises
  \/ Identical
  \/ Differ
  \/ ClearDir
  \/ ClearFile
  \/ ClearSkip
  \/ BeginCopy
  \/ CopyDir
  \/ CopySkip
  \/ CopyFile
  \/ Return
  \/ NextRun

Spec == Init /\ [][Next]_vars

\* ===================================================== properties checked
src0 == join(dir1, Reserved)
keep == join(dir2, Reserved)

\* the run in progress began with both paths being directories
BothDirs(F) == isdir(F, dir1) /\ isdir(F, dir2)

\* the entry at top-level name n of directory d and everything below it
Top(F, d, n) == At(F, join(d, n))

CopyOps   == {"copytree", "copy2"}
DeleteOps == {"rmtree", "remove"}

\* the copy loop has been entered and has handled no item yet
FirstCopyStarts == pc = "copy" /\ todoCopy = order

\* the run before the current one
Prev == ends[run - 1]

\* C1: when every top-level name of directory1 is also one of directory2, the
\* run changes nothing in the filesystem, makes no delete or copy call, never
\* enters the clear or copy loop, and ends having printed the message once.
C1_CoveredNamesNoOp ==
  (BothDirs(fsStart) /\ listdir(fsStart, dir1) \subseteq listdir(fsStart, dir2))
    => /\ fs = fsStart
       /\ calls = {}
       /\ pc \in {"start", "done"}
       /\ out = (IF pc = "done" THEN 1 ELSE 0)

\* C1 witness: a finished no-op run whose directory2 has a name directory1
\* lacks and a common name with different content
C1_Witness ==
  /\ pc = "done" /\ path = "noop" /\ out = 1
  /\ listdir(fs, dir1) \subseteq listdir(fs, dir2)
  /\ listdir(fs, dir2) \ listdir(fs, dir1) # {}
  /\ \E n \in listdir(fs, dir1) : Top(fs, dir1, n) # Top(fs, dir2, n)

\* C2: when directory1 has a top-level name directory2 lacks, a run that
\* completes leaves every top-level name of directory1 other than 'specific'
\* in directory2 with the same subtree.
C2_MissingNameSynced ==
  (pc = "done" /\ BothDirs(fsStart)
      /\ listdir(fsStart, dir1) \ listdir(fsStart, dir2) # {})
    => \A n \in listdir(fs, dir1) \ {Reserved} :
         lexists(fs, join(dir2, n)) /\ Top(fs, dir2, n) = Top(fs, dir1, n)

\* C3: whatever is at directory2/specific at the start of a run (nothing, a
\* file, a directory with its contents) is the same in every state of the run.
C3_ReservedUntouched == At(fs, keep) = At(fsStart, keep)

\* C4: after a run that completes, every top-level entry of directory2 other
\* than 'specific' has an equal entry of the same name in directory1.
C4_DestMirrorsSource ==
  pc = "done"
    => \A n \in listdir(fs, dir2) \ {Reserved} :
         lexists(fs, join(dir1, n)) /\ Top(fs, dir1, n) = Top(fs, dir2, n)

\* C5: a second run in succession ends with the filesystem the first run left.
C5_Idempotent ==
  (run >= 2 /\ pc \in {"done", "error"}) => fs = Prev.fs

\* C6: after a run that completed, the next run takes the no-op path: it never
\* enters the clear or copy loop, makes no call, and prints the message.
C6_SecondRunNoOp ==
  (run >= 2 /\ Prev.pc = "done")
    => /\ pc \in {"start", "done"}
       /\ calls = {}
       /\ pc = "done" => (path = "noop" /\ out = 1)

\* C7: when directory1 or directory2 is missing or not a directory, the run
\* ends in an error raised by the comparison, with the filesystem unchanged,
\* no delete or copy call made and nothing printed.
C7_MissingDirRaisesFirst ==
  ~BothDirs(fsStart)
    => /\ fs = fsStart
       /\ calls = {}
       /\ out = 0
       /\ pc \in {"start", "error"}
       /\ pc = "error" => raised = "compare"

\* C7 witness: a run that ended in the comparison's error, directory2 missing
\* while directory1 holds entries
C7_Witness ==
  /\ pc = "error" /\ raised = "compare"
  /\ ~lexists(fs, dir2)
  /\ listdir(fs, dir1) # {}

\* C8: when the first copy starts, the top-level listing of directory2 holds
\* at most 'specific'.
C8_ClearedBeforeCopy ==
  FirstCopyStarts => listdir(fs, dir2) \subseteq {Reserved}

\* a path below a non-reserved top-level name of d with a deeper segment
\* named 'specific'
NestedReserved(d, q) ==
  /\ Under(d, q) /\ Len(q) >= 3
  /\ q[2] # Reserved
  /\ \E i \in 3..Len(q) : q[i] = Reserved

\* C9: on the clear-and-copy path the exclusion of 'specific' is top-level
\* only: (a) once the clear loop is over nothing is left below a non-reserved
\* top-level name of directory2, nested 'specific' included; (b) after a
\* completed run every entry at or below a nested 'specific' of a top-level
\* source directory is in directory2 unchanged; (c) a top-level source
\* directory 'specific' leaves directory2/specific as the run found it.
C9_ExclusionTopLevelOnly ==
  /\ FirstCopyStarts
       => \A q \in DOMAIN fs : ~NestedReserved(dir2, q)
  /\ (pc = "done" /\ path = "sync")
       => /\ \A q \in DOMAIN fs :
               (NestedReserved(dir1, q) /\ isdir(fs, join(dir1, q[2])))
                 => /\ lexists(fs, Rebase(q, dir1, dir2))
                    /\ fs[Rebase(q, dir1, dir2)] = fs[q]
          /\ isdir(fs, src0) => At(fs, keep) = At(fsStart, keep)

\* C9 witness: a completed clear-and-copy run that copied a nested 'specific'
\* and had deleted one
C9_Witness ==
  /\ pc = "done" /\ path = "sync"
  /\ \E q \in DOMAIN fs :
       NestedReserved(dir1, q) /\ lexists(fs, Rebase(q, dir1, dir2))
  /\ \E q \in DOMAIN fsStart :
       NestedReserved(dir2, q) /\ ~lexists(fs, q)

====
